---- MODULE Spec2Model ----
(***************************************************************************)
(* Model of finetune.ipynb: fine-tuning pretrained ResNet checkpoints on   *)
(* caltech-256 with MXNet.  The notebook is a straight-line script; its    *)
(* state is the working directory (the files download() creates), the      *)
(* Python names the cells bind (sym, arg_params, new_args, ...), and the   *)
(* position of the training loop that Module.fit runs.                     *)
(*                                                                         *)
(* Python strings are tuples of one-character strings, so that split,      *)
(* concatenation, %-formatting and the substring test `in` are computed.   *)
(* Accuracies are integers in thousandths (0.77 is 770).  Parameter arrays *)
(* are small integers.  The cells run under Python 2 (the notebook's       *)
(* kernel) or Python 3 (the import in the first cell provides for both).   *)
(***************************************************************************)
EXTENDS Integers, Sequences, FiniteSets, TLC

VARIABLES fs, fetch_count, pc, status, err, retries, sym, arg_params,
          aux_params, new_sym, new_args, iters, fit_call, phase, epoch,
          epoch_acc, mod_score, n_score, scored_on, completed, last_url,
          ncalls, python_major

vars == <<fs, fetch_count, pc, status, err, retries, sym, arg_params,
          aux_params, new_sym, new_args, iters, fit_call, phase, epoch,
          epoch_acc, mod_score, n_score, scored_on, completed, last_url,
          ncalls, python_major>>

---------------------------------------------------------------------------
(* Bounds of the model *)

\* parameter arrays take the values 1..MaxValue
MaxValue == 1
\* how many times the reader removes the checkpoint files and retries
MaxRetries == 1
\* length of the sequences of download calls explored by SpecDownload
MaxCalls == 3

(* Constants of the notebook *)

NumEpoch == 8
num_classes == 256
batch_per_gpu == 16
num_gpus == 8
batch_size == batch_per_gpu * num_gpus

---------------------------------------------------------------------------
(* String literals of the notebook *)

URL_TRAIN == <<"h","t","t","p",":","/","/","d","a","t","a",".","m","x","n","e","t",".","i","o","/","d","a","t","a","/","c","a","l","t","e","c","h","-","2","5","6","/","c","a","l","t","e","c","h","-","2","5","6","-","6","0","-","t","r","a","i","n",".","r","e","c">>
URL_VAL == <<"h","t","t","p",":","/","/","d","a","t","a",".","m","x","n","e","t",".","i","o","/","d","a","t","a","/","c","a","l","t","e","c","h","-","2","5","6","/","c","a","l","t","e","c","h","-","2","5","6","-","6","0","-","v","a","l",".","r","e","c">>
PREFIX_50 == <<"h","t","t","p",":","/","/","d","a","t","a",".","m","x","n","e","t",".","i","o","/","m","o","d","e","l","s","/","i","m","a","g","e","n","e","t","/","r","e","s","n","e","t","/","5","0","-","l","a","y","e","r","s","/","r","e","s","n","e","t","-","5","0">>
PREFIX_152 == <<"h","t","t","p",":","/","/","d","a","t","a",".","m","x","n","e","t",".","i","o","/","m","o","d","e","l","s","/","i","m","a","g","e","n","e","t","-","1","1","k","/","r","e","s","n","e","t","-","1","5","2","/","r","e","s","n","e","t","-","1","5","2">>
PATH_TRAIN == <<".","/","c","a","l","t","e","c","h","-","2","5","6","-","6","0","-","t","r","a","i","n",".","r","e","c">>
PATH_VAL == <<".","/","c","a","l","t","e","c","h","-","2","5","6","-","6","0","-","v","a","l",".","r","e","c">>
FC1 == <<"f","c","1">>
SOFTMAX == <<"s","o","f","t","m","a","x">>
FLATTEN0 == <<"f","l","a","t","t","e","n","0">>
LOW_ACCURACY == "AssertionError: Low training accuracy."

---------------------------------------------------------------------------
(* Python string operations *)

Max(S) == CHOOSE x \in S : \A y \in S : y <= x

\* sub in s
Contains(sub, s) ==
    \E i \in 1..(Len(s) - Len(sub) + 1) : SubSeq(s, i, i + Len(sub) - 1) = sub

\* s.split("/")[-1]
LastSegment(s) ==
    LET slashes == {i \in 1..Len(s) : s[i] = "/"}
    IN  IF slashes = {} THEN s ELSE SubSeq(s, Max(slashes) + 1, Len(s))

Digit(n) == <<"0","1","2","3","4","5","6","7","8","9">>[n + 1]

RECURSIVE Decimal(_)
\* '%d' % n for n >= 0
Decimal(n) == IF n < 10 THEN <<Digit(n)>> ELSE Decimal(n \div 10) \o <<Digit(n % 10)>>

RECURSIVE ZeroPad(_, _)
ZeroPad(s, width) == IF Len(s) >= width THEN s ELSE ZeroPad(<<"0">> \o s, width)

\* '-%04d.params' % (epoch,)
ParamsSuffix(epoch_) == <<"-">> \o ZeroPad(Decimal(epoch_), 4) \o <<".","p","a","r","a","m","s">>

SymbolSuffix == <<"-","s","y","m","b","o","l",".","j","s","o","n">>

---------------------------------------------------------------------------
(* Python values and the comparison of the assert *)

Float(x) == [type |-> "float", value |-> x, items |-> <<>>]
List(xs) == [type |-> "list", value |-> 0, items |-> xs]

\* a > b: "True", "False" or "TypeError".  Two floats compare by value.  A
\* list and a float: Python 2 orders values of different types by type, a
\* number below everything else; Python 3 raises TypeError.
py_gt(a, b, major) ==
    CASE a.type = "float" /\ b.type = "float" ->
            IF a.value > b.value THEN "True" ELSE "False"
      [] major = 2 ->
            IF a.type = "list" THEN "True" ELSE "False"
      [] OTHER -> "TypeError"

\* Module.score returns eval_metric.get_name_value(): a list of
\* (name, value) pairs, one per metric
get_name_value(a) == List(<< <<"accuracy", a>> >>)

\* the accuracy in what Module.score returned
Accuracy(score) == score.items[1][2]

---------------------------------------------------------------------------
(* The working directory and download *)

EmptyDict == [k \in {} |-> 0]

Count(fc, f) == IF f \in DOMAIN fc THEN fc[f] ELSE 0

Put(d, k, v) == [x \in DOMAIN d \cup {k} |-> IF x = k THEN v ELSE d[x]]

Remove(d, ks) == [x \in DOMAIN d \ ks |-> d[x]]

\* what a call of urlretrieve can do: write the whole file, write a file
\* with the wrong content, raise with a partial file left, raise with none
FetchOutcomes == {"ok", "corrupt", "fail_partial", "fail"}
Successful == {"ok", "corrupt"}

\* urlretrieve(url, filename) on the directory d = [fs, fetch_count]
urlretrieve(d, url, filename, outcome) ==
    LET counted == Put(d.fetch_count, filename, Count(d.fetch_count, filename) + 1)
    IN  CASE outcome = "ok" ->
               [fs |-> Put(d.fs, filename, [url |-> url, complete |-> TRUE]),
                fetch_count |-> counted, raised |-> FALSE]
          [] outcome = "corrupt" ->
               [fs |-> Put(d.fs, filename, [url |-> url, complete |-> FALSE]),
                fetch_count |-> counted, raised |-> FALSE]
          [] outcome = "fail_partial" ->
               [fs |-> Put(d.fs, filename, [url |-> url, complete |-> FALSE]),
                fetch_count |-> counted, raised |-> TRUE]
          [] OTHER ->
               [fs |-> d.fs, fetch_count |-> counted, raised |-> TRUE]

\* a download that fetches whether or not the file is there
download_always(d, url, outcome) ==
    urlretrieve(d, url, LastSegment(url), outcome)

download(d, url, outcome) ==
    LET filename == LastSegment(url)
    IN  IF filename \notin DOMAIN d.fs
        THEN urlretrieve(d, url, filename, outcome)
        ELSE [fs |-> d.fs, fetch_count |-> d.fetch_count, raised |-> FALSE]

\* a get_model that forgets the parameter file
get_model_symbol_only(d, prefix, epoch_, o1, o2) ==
    download(d, prefix \o SymbolSuffix, o1)

get_model(d, prefix, epoch_, o1, o2) ==
    LET d1 == download(d, prefix \o SymbolSuffix, o1)
    IN  IF d1.raised THEN d1
        ELSE download([fs |-> d1.fs, fetch_count |-> d1.fetch_count],
                      prefix \o ParamsSuffix(epoch_), o2)

---------------------------------------------------------------------------
(* Checkpoints and model surgery *)

\* the files mx.model.load_checkpoint(prefix, epoch) reads
CheckpointFiles(prefix, epoch_) == {prefix \o SymbolSuffix, prefix \o ParamsSuffix(epoch_)}

\* the local files get_model(prefix, epoch) leaves
DownloadedFiles(prefix, epoch_) ==
    {LastSegment(prefix \o SymbolSuffix), LastSegment(prefix \o ParamsSuffix(epoch_))}

\* Names a pretrained arg_params dictionary may hold.  A checkpoint is
\* whatever the server sent: any subset of the names, with any values.
ParamNames ==
    {<<"c","o","n","v","0","_","w","e","i","g","h","t">>, <<"f","c","1","_","w","e","i","g","h","t">>, <<"f","c","1","0","_","w","e","i","g","h","t">>}

Values == 1..MaxValue

ArgDicts == UNION {[ks -> Values] : ks \in SUBSET ParamNames}

AuxDicts == {[k \in {<<"b","n","0","_","m","o","v","i","n","g","_","m","e","a","n">>} |-> 1]}

\* The internals of a loaded symbol: the names symbol.get_internals() lists.
SymChoices ==
    {[internals |-> {<<"d","a","t","a">>, <<"f","l","a","t","t","e","n","0","_","o","u","t","p","u","t">>, <<"f","c","1","_","o","u","t","p","u","t">>, <<"s","o","f","t","m","a","x","_","o","u","t","p","u","t">>}],
     [internals |-> {<<"d","a","t","a">>, <<"p","o","o","l","1","_","o","u","t","p","u","t">>, <<"f","c","1","_","o","u","t","p","u","t">>, <<"s","o","f","t","m","a","x","_","o","u","t","p","u","t">>}]}

NoSym == [internals |-> {}]
NoNet == [data |-> <<>>, fc_name |-> <<>>, num_hidden |-> 0, out_name |-> <<>>]

\* a get_fine_tune_model that hands back every pretrained parameter
get_fine_tune_model_all_args(symbol, arg_params_, num_classes_, layer_name) ==
    LET key == layer_name \o <<"_","o","u","t","p","u","t">>
    IN  IF key \notin symbol.internals
        THEN [raised |-> TRUE, net |-> NoNet, new_args |-> EmptyDict]
        ELSE [raised |-> FALSE,
              net |-> [data |-> key, fc_name |-> FC1,
                       num_hidden |-> num_classes_, out_name |-> SOFTMAX],
              new_args |-> arg_params_]

get_fine_tune_model(symbol, arg_params_, num_classes_, layer_name) ==
    LET all_layers == symbol.internals
        key == layer_name \o <<"_","o","u","t","p","u","t">>
    IN  IF key \notin all_layers
        THEN [raised |-> TRUE, net |-> NoNet, new_args |-> EmptyDict]
        ELSE [raised |-> FALSE,
              net |-> [data |-> key, fc_name |-> FC1,
                       num_hidden |-> num_classes_, out_name |-> SOFTMAX],
              new_args |-> [k \in {x \in DOMAIN arg_params_ : ~Contains(FC1, x)}
                              |-> arg_params_[k]]]

\* an ImageRecordIter reads path_imgrec relative to the working directory
LocalName(path) ==
    IF Len(path) >= 2 /\ SubSeq(path, 1, 2) = <<".","/">>
    THEN SubSeq(path, 3, Len(path)) ELSE path

get_iterators(batch_size_) ==
    [train |-> [path_imgrec |-> PATH_TRAIN, batch_size |-> batch_size_,
                shuffle |-> TRUE, rand_crop |-> TRUE, rand_mirror |-> TRUE],
     val   |-> [path_imgrec |-> PATH_VAL, batch_size |-> batch_size_,
                shuffle |-> FALSE, rand_crop |-> FALSE, rand_mirror |-> FALSE]]

NoIters ==
    LET none == [path_imgrec |-> <<>>, batch_size |-> 0, shuffle |-> FALSE,
                 rand_crop |-> FALSE, rand_mirror |-> FALSE]
    IN  [train |-> none, val |-> none]

\* validation accuracies, in thousandths
Scores == {770, 860, 861}

NoCall ==
    [symbol |-> NoNet, arg_params |-> EmptyDict, aux_params |-> EmptyDict,
     train |-> NoIters.train, val |-> NoIters.val, num_epoch |-> 0,
     allow_missing |-> FALSE, initializer |-> "", optimizer |-> "",
     learning_rate |-> "", kvstore |-> "", eval_metric |-> "",
     batch_size |-> 0, num_gpus |-> 0]

---------------------------------------------------------------------------
(* The cells of the notebook, in order *)

Stmt(op, run, url, epoch_, threshold) ==
    [op |-> op, run |-> run, url |-> url, epoch |-> epoch_, threshold |-> threshold]

\* the cells with the iterators created before the record files are fetched
ScriptIteratorsFirst ==
    << Stmt("get_iterators", 1, <<>>, 0, 0),
       Stmt("download", 0, URL_TRAIN, 0, 0),
       Stmt("download", 0, URL_VAL, 0, 0),
       Stmt("get_model", 1, PREFIX_50, 0, 0),
       Stmt("load_checkpoint", 1, <<"r","e","s","n","e","t","-","5","0">>, 0, 0),
       Stmt("get_fine_tune_model", 1, <<>>, 0, 0),
       Stmt("fit", 1, <<>>, 0, 0),
       Stmt("assert", 1, <<>>, 0, 770),
       Stmt("get_model", 2, PREFIX_152, 0, 0),
       Stmt("load_checkpoint", 2, <<"r","e","s","n","e","t","-","1","5","2">>, 0, 0),
       Stmt("get_fine_tune_model", 2, <<>>, 0, 0),
       Stmt("fit", 2, <<>>, 0, 0),
       Stmt("assert", 2, <<>>, 0, 860) >>

Script ==
    << Stmt("download", 0, URL_TRAIN, 0, 0),
       Stmt("download", 0, URL_VAL, 0, 0),
       Stmt("get_model", 1, PREFIX_50, 0, 0),
       Stmt("load_checkpoint", 1, <<"r","e","s","n","e","t","-","5","0">>, 0, 0),
       Stmt("get_fine_tune_model", 1, <<>>, 0, 0),
       Stmt("get_iterators", 1, <<>>, 0, 0),
       Stmt("fit", 1, <<>>, 0, 0),
       Stmt("assert", 1, <<>>, 0, 770),
       Stmt("get_model", 2, PREFIX_152, 0, 0),
       Stmt("load_checkpoint", 2, <<"r","e","s","n","e","t","-","1","5","2">>, 0, 0),
       Stmt("get_fine_tune_model", 2, <<>>, 0, 0),
       Stmt("fit", 2, <<>>, 0, 0),
       Stmt("assert", 2, <<>>, 0, 860) >>

End == Len(Script) + 1

Cur == Script[pc]

At(op) == status = "running" /\ pc \in 1..Len(Script) /\ Cur.op = op

Disk == [fs |-> fs, fetch_count |-> fetch_count]

\* the get_model statement of a run
GetModelOf(run) == CHOOSE s \in {Script[i] : i \in 1..Len(Script)} :
                       s.op = "get_model" /\ s.run = run

UnchangedNames ==
    UNCHANGED <<sym, arg_params, aux_params, new_sym, new_args, iters>>
UnchangedFit ==
    UNCHANGED <<fit_call, phase, epoch, epoch_acc, mod_score, n_score, scored_on>>
UnchangedDisk == UNCHANGED <<fs, fetch_count>>
UnchangedCalls == UNCHANGED <<last_url, ncalls, python_major>>

Init ==
    /\ fs = EmptyDict
    /\ fetch_count = EmptyDict
    /\ pc = 1
    /\ status = "running"
    /\ err = ""
    /\ retries = 0
    /\ sym = NoSym
    /\ arg_params = EmptyDict
    /\ aux_params = EmptyDict
    /\ new_sym = NoNet
    /\ new_args = EmptyDict
    /\ iters = NoIters
    /\ fit_call = NoCall
    /\ phase = "idle"
    /\ epoch = 0
    /\ epoch_acc = 0
    /\ mod_score = List(<<>>)
    /\ n_score = 0
    /\ scored_on = ""
    /\ completed = {}
    /\ last_url = <<>>
    /\ ncalls = 0
    /\ python_major \in {2, 3}

\* download(url) as a statement of its own
DownloadStmt ==
    /\ At("download")
    /\ \E o \in FetchOutcomes :
         LET d == download(Disk, Cur.url, o)
         IN  /\ fs' = d.fs
             /\ fetch_count' = d.fetch_count
             /\ IF d.raised
                THEN /\ status' = "error"
                     /\ err' = "IOError"
                     /\ UNCHANGED <<pc, completed>>
                ELSE /\ pc' = pc + 1
                     /\ completed' = completed \cup {<<"download", Cur.url>>}
                     /\ UNCHANGED <<status, err>>
    /\ UNCHANGED retries
    /\ UnchangedNames /\ UnchangedFit /\ UnchangedCalls

GetModelStmt ==
    /\ At("get_model")
    /\ \E o1, o2 \in FetchOutcomes :
         LET d == get_model(Disk, Cur.url, Cur.epoch, o1, o2)
         IN  /\ fs' = d.fs
             /\ fetch_count' = d.fetch_count
             /\ IF d.raised
                THEN /\ status' = "error"
                     /\ err' = "IOError"
                     /\ UNCHANGED <<pc, completed>>
                ELSE /\ pc' = pc + 1
                     /\ completed' = completed \cup {<<"get_model", Cur.run>>}
                     /\ UNCHANGED <<status, err>>
    /\ UNCHANGED retries
    /\ UnchangedNames /\ UnchangedFit /\ UnchangedCalls

\* sym, arg_params, aux_params = mx.model.load_checkpoint(prefix, epoch)
LoadCheckpointStmt ==
    /\ At("load_checkpoint")
    /\ IF \A f \in CheckpointFiles(Cur.url, Cur.epoch) :
            f \in DOMAIN fs /\ fs[f].complete
       THEN /\ \E s \in SymChoices, a \in ArgDicts, x \in AuxDicts :
                 /\ sym' = s
                 /\ arg_params' = a
                 /\ aux_params' = x
            /\ pc' = pc + 1
            /\ completed' = completed \cup {<<"load_checkpoint", Cur.run>>}
            /\ UNCHANGED <<status, err>>
       ELSE /\ status' = "load_error"
            /\ err' = "MXNetError"
            /\ UNCHANGED <<pc, completed, sym, arg_params, aux_params>>
    /\ UNCHANGED <<retries, new_sym, new_args, iters>>
    /\ UnchangedDisk /\ UnchangedFit /\ UnchangedCalls

\* "if load_checkpoint reports an error, we can remove the downloaded files"
RemoveDownloadedFiles ==
    /\ status = "load_error"
    /\ retries < MaxRetries
    /\ LET g == GetModelOf(Cur.run)
       IN  fs' = Remove(fs, DownloadedFiles(g.url, g.epoch))
    /\ status' = "removed"
    /\ retries' = retries + 1
    /\ UNCHANGED <<fetch_count, pc, err, completed>>
    /\ UnchangedNames /\ UnchangedFit /\ UnchangedCalls

\* "... and try get_model again"
GetModelAgain ==
    /\ status = "removed"
    /\ \E o1, o2 \in FetchOutcomes :
         LET g == GetModelOf(Cur.run)
             d == get_model(Disk, g.url, g.epoch, o1, o2)
         IN  /\ fs' = d.fs
             /\ fetch_count' = d.fetch_count
             /\ IF d.raised
                THEN status' = "error" /\ err' = "IOError"
                ELSE status' = "running" /\ err' = ""
    /\ UNCHANGED <<pc, retries, completed>>
    /\ UnchangedNames /\ UnchangedFit /\ UnchangedCalls

\* (new_sym, new_args) = get_fine_tune_model(sym, arg_params, num_classes)
GetFineTuneModelStmt ==
    /\ At("get_fine_tune_model")
    /\ LET r == get_fine_tune_model(sym, arg_params, num_classes, FLATTEN0)
       IN  IF r.raised
           THEN /\ status' = "error"
                /\ err' = "ValueError"
                /\ UNCHANGED <<pc, completed, new_sym, new_args>>
           ELSE /\ new_sym' = r.net
                /\ new_args' = r.new_args
                /\ pc' = pc + 1
                /\ completed' = completed \cup {<<"get_fine_tune_model", Cur.run>>}
                /\ UNCHANGED <<status, err>>
    /\ UNCHANGED <<retries, sym, arg_params, aux_params, iters>>
    /\ UnchangedDisk /\ UnchangedFit /\ UnchangedCalls

\* (train, val) = get_iterators(batch_size)
GetIteratorsStmt ==
    /\ At("get_iterators")
    /\ iters' = get_iterators(batch_size)
    /\ pc' = pc + 1
    /\ completed' = completed \cup {<<"get_iterators", Cur.run>>}
    /\ UNCHANGED <<status, err, retries, sym, arg_params, aux_params, new_sym, new_args>>
    /\ UnchangedDisk /\ UnchangedFit /\ UnchangedCalls

---------------------------------------------------------------------------
(* fit: Module.fit trains num_epoch epochs, then Module.score on val *)

\* mod = mx.mod.Module(...); mod.fit(train, val, num_epoch=8, ...) begins
FitStart ==
    /\ At("fit")
    /\ phase = "idle"
    /\ fit_call' = [symbol |-> new_sym, arg_params |-> new_args,
                    aux_params |-> aux_params,
                    train |-> iters.train, val |-> iters.val,
                    num_epoch |-> NumEpoch, allow_missing |-> TRUE,
                    initializer |-> "Xavier", optimizer |-> "sgd",
                    learning_rate |-> "0.01", kvstore |-> "device",
                    eval_metric |-> "acc",
                    batch_size |-> batch_size, num_gpus |-> num_gpus]
    /\ phase' = "training"
    /\ epoch' = 0
    /\ n_score' = 0
    /\ scored_on' = ""
    /\ UNCHANGED <<epoch_acc, mod_score, pc, status, err, retries, completed>>
    /\ UnchangedNames /\ UnchangedDisk /\ UnchangedCalls

\* one epoch over train; eval_metric on eval_data is logged after it
TrainEpoch ==
    /\ At("fit")
    /\ phase = "training"
    /\ epoch < fit_call.num_epoch
    /\ epoch' = epoch + 1
    /\ \E a \in Scores : epoch_acc' = a
    /\ UNCHANGED <<fit_call, phase, mod_score, n_score, scored_on>>
    /\ UNCHANGED <<pc, status, err, retries, completed>>
    /\ UnchangedNames /\ UnchangedDisk /\ UnchangedCalls

\* a fit that stops training once an epoch's accuracy is high enough
ScoreEarly ==
    /\ At("fit")
    /\ phase = "training"
    /\ epoch >= 1
    /\ epoch = fit_call.num_epoch \/ epoch_acc > 860
    /\ \E a \in Scores : mod_score' = get_name_value(a)
    /\ n_score' = n_score + 1
    /\ scored_on' = "val"
    /\ phase' = "idle"
    /\ pc' = pc + 1
    /\ completed' = completed \cup {<<"fit", Cur.run>>}
    /\ UNCHANGED <<fit_call, epoch, epoch_acc, status, err, retries>>
    /\ UnchangedNames /\ UnchangedDisk /\ UnchangedCalls

\* metric = mx.metric.Accuracy(); return mod.score(val, metric)
Score ==
    /\ At("fit")
    /\ phase = "training"
    /\ epoch = fit_call.num_epoch
    /\ \E a \in Scores : mod_score' = get_name_value(a)
    /\ n_score' = n_score + 1
    /\ scored_on' = "val"
    /\ phase' = "idle"
    /\ pc' = pc + 1
    /\ completed' = completed \cup {<<"fit", Cur.run>>}
    /\ UNCHANGED <<fit_call, epoch, epoch_acc, status, err, retries>>
    /\ UnchangedNames /\ UnchangedDisk /\ UnchangedCalls

Fit == FitStart \/ TrainEpoch \/ Score

\* assert mod_score > threshold, "Low training accuracy."
AssertStmt ==
    /\ At("assert")
    /\ LET test == py_gt(mod_score, Float(Cur.threshold), python_major)
       IN  CASE test = "True" ->
                  /\ pc' = pc + 1
                  /\ completed' = completed \cup {<<"assert", Cur.run>>}
                  /\ UNCHANGED <<status, err>>
             [] test = "False" ->
                  /\ status' = "error"
                  /\ err' = LOW_ACCURACY
                  /\ UNCHANGED <<pc, completed>>
             [] OTHER ->
                  /\ status' = "error"
                  /\ err' = "TypeError"
                  /\ UNCHANGED <<pc, completed>>
    /\ UNCHANGED retries
    /\ UnchangedNames /\ UnchangedDisk /\ UnchangedFit /\ UnchangedCalls

Next ==
    \/ DownloadStmt
    \/ GetModelStmt
    \/ LoadCheckpointStmt
    \/ RemoveDownloadedFiles
    \/ GetModelAgain
    \/ GetFineTuneModelStmt
    \/ GetIteratorsStmt
    \/ FitStart
    \/ TrainEpoch
    \/ Score
    \/ AssertStmt

Spec == Init /\ [][Next]_vars

\* the interpreter keeps executing the cell it is in
FairSpec == Spec /\ WF_vars(Fit)

---------------------------------------------------------------------------
(* download on its own: any sequence of calls, on any directory *)

MIRROR_TRAIN == <<"h","t","t","p",":","/","/","m","i","r","r","o","r",".","e","x","a","m","p","l","e","/","c","a","l","t","e","c","h","-","2","5","6","-","6","0","-","t","r","a","i","n",".","r","e","c">>
BARE_NAME == <<"l","o","c","a","l",".","r","e","c">>

Urls ==
    {URL_TRAIN, URL_VAL, MIRROR_TRAIN, BARE_NAME,
     PREFIX_50 \o SymbolSuffix, PREFIX_50 \o ParamsSuffix(0)}

\* files a previous session may have left: whole or partial
LeftOver == {LastSegment(URL_TRAIN), LastSegment(PREFIX_50 \o SymbolSuffix)}

InitialDirs ==
    UNION {[ks -> {[url |-> <<>>, complete |-> c] : c \in BOOLEAN}] :
             ks \in SUBSET LeftOver}

InitDownload ==
    /\ fs \in InitialDirs
    /\ fetch_count = EmptyDict
    /\ pc = 1
    /\ status = "calls"
    /\ err = ""
    /\ retries = 0
    /\ sym = NoSym
    /\ arg_params = EmptyDict
    /\ aux_params = EmptyDict
    /\ new_sym = NoNet
    /\ new_args = EmptyDict
    /\ iters = NoIters
    /\ fit_call = NoCall
    /\ phase = "idle"
    /\ epoch = 0
    /\ epoch_acc = 0
    /\ mod_score = List(<<>>)
    /\ n_score = 0
    /\ scored_on = ""
    /\ completed = {}
    /\ last_url = <<>>
    /\ ncalls = 0
    /\ python_major \in {2, 3}

\* one call download(url) whose fetch, if any, succeeds
DownloadCall ==
    /\ status = "calls"
    /\ ncalls < MaxCalls
    /\ \E url \in Urls, o \in Successful :
         LET d == download(Disk, url, o)
         IN  /\ fs' = d.fs
             /\ fetch_count' = d.fetch_count
             /\ last_url' = url
    /\ ncalls' = ncalls + 1
    /\ UNCHANGED <<pc, status, err, retries, completed, python_major>>
    /\ UnchangedNames /\ UnchangedFit

NextDownload == DownloadCall

SpecDownload == InitDownload /\ [][NextDownload]_vars

---------------------------------------------------------------------------
(* Properties *)

JustRan(op) == status = "running" /\ pc > 1 /\ pc <= End /\ Script[pc - 1].op = op

IndexOf(op, run) == CHOOSE i \in 1..Len(Script) : Script[i].op = op /\ Script[i].run = run

Label(s) == IF s.op = "download" THEN <<s.op, s.url>> ELSE <<s.op, s.run>>

FitBegun(run) ==
    \/ <<"fit", run>> \in completed
    \/ pc = IndexOf("fit", run) /\ phase = "training"

\* C1: get_fine_tune_model keeps every pretrained entry other than fc1's own
\* weight and bias, with its value, and adds no key: right after the call,
\* each key of arg_params except fc1_weight and fc1_bias is in new_args with
\* the same value, and every key of new_args is a key of arg_params.
CarriesOverAllButFc1 ==
    JustRan("get_fine_tune_model") =>
        /\ \A k \in DOMAIN arg_params :
              k \notin {FC1 \o <<"_","w","e","i","g","h","t">>, FC1 \o <<"_","b","i","a","s">>} =>
                  k \in DOMAIN new_args /\ new_args[k] = arg_params[k]
        /\ DOMAIN new_args \subseteq DOMAIN arg_params

\* C2: the assert lets a run continue only if the accuracy fit returned is
\* above the run's threshold (0.77 for resnet-50, 0.86 for resnet-152), and
\* whenever the accuracy is at or below it the run stops with the assertion
\* failure 'Low training accuracy.'
AssertRejectsLowAccuracy ==
    [][(At("assert") /\ (pc' # pc \/ status' # status)) =>
         LET threshold == IF GetModelOf(Cur.run).url = PREFIX_50 THEN 770 ELSE 860
         IN  /\ (pc' = pc + 1 /\ status' = "running") => (Accuracy(mod_score) > threshold)
             /\ (Accuracy(mod_score) <= threshold) =>
                    (status' = "error" /\ err' = LOW_ACCURACY /\ pc' = pc)]_vars

NewLayerNotPretrained ==
    fit_call # NoCall =>
        /\ \A k \in DOMAIN fit_call.arg_params :
              \A i \in 1..(Len(k) - 2) : <<k[i], k[i + 1], k[i + 2]>> # <<"f", "c", "1">>
        /\ fit_call.allow_missing
        /\ fit_call.initializer = "Xavier"
        /\ fit_call.symbol.fc_name = <<"f", "c", "1">>
        /\ fit_call.symbol.num_hidden = 256

C4_Witness ==
    /\ pc = IndexOf("fit", 2)
    /\ phase = "training"
    /\ FC1 \o <<"_","w","e","i","g","h","t">> \in DOMAIN arg_params
    /\ <<"c","o","n","v","0","_","w","e","i","g","h","t">> \in DOMAIN fit_call.arg_params

\* C5: after load_checkpoint reported an error and the two downloaded files
\* were removed, a get_model call that raises nothing fetches both files
\* anew, so both exist again.
RetryFetchesBoth ==
    [][LET g == GetModelOf(Cur.run)
           symbol_url == g.url \o SymbolSuffix
           params_url == g.url \o ParamsSuffix(g.epoch)
       IN  /\ (status = "load_error" /\ status' = "removed") =>
                 \A u \in {symbol_url, params_url} : LastSegment(u) \notin DOMAIN fs'
           /\ (status = "removed" /\ status' = "running") =>
                 \A u \in {symbol_url, params_url} :
                    /\ LastSegment(u) \in DOMAIN fs'
                    /\ fs'[LastSegment(u)].url = u
                    /\ Count(fetch_count', LastSegment(u))
                          = Count(fetch_count, LastSegment(u)) + 1]_vars

C5_Witness ==
    /\ retries = 1
    /\ status = "running"
    /\ pc = IndexOf("load_checkpoint", 1)
    /\ DownloadedFiles(PREFIX_50, 0) \subseteq DOMAIN fs
    /\ \A f \in DownloadedFiles(PREFIX_50, 0) : Count(fetch_count, f) = 2

\* C7: download fetches exactly when no file named by the URL's last segment
\* exists and otherwise changes nothing, so no filename is fetched twice and
\* a second call with the same URL has no further effect.
DownloadIfAbsent ==
    /\ [][ncalls' = ncalls + 1 =>
            LET f == LastSegment(last_url')
            IN  /\ (Count(fetch_count', f) = Count(fetch_count, f) + 1)
                      <=> (f \notin DOMAIN fs)
                /\ f \in DOMAIN fs => (fs' = fs /\ fetch_count' = fetch_count)
                /\ f \notin DOMAIN fs =>
                      /\ f \in DOMAIN fs' /\ fs'[f].url = last_url'
                      /\ \A g \in DOMAIN fs : fs'[g] = fs[g]
                      /\ DOMAIN fs' = DOMAIN fs \cup {f}]_vars
    /\ [](\A f \in DOMAIN fetch_count : fetch_count[f] <= 1)
    /\ [](\A u \in Urls : \A o1, o2 \in Successful :
            LET once == download(Disk, u, o1)
                twice == download([fs |-> once.fs, fetch_count |-> once.fetch_count], u, o2)
            IN  twice = once)

C7_Witness ==
    /\ ncalls = MaxCalls
    /\ last_url = MIRROR_TRAIN
    /\ LastSegment(URL_TRAIN) \in DOMAIN fs
    /\ fs[LastSegment(URL_TRAIN)].url = URL_TRAIN
    /\ Count(fetch_count, LastSegment(URL_TRAIN)) = 1

\* C8: every call of fit trains exactly 8 epochs whatever the accuracy after
\* each, ends, and computes the score it returns once, after the last epoch,
\* on the validation iterator.
FitTrainsEightEpochsThenScores ==
    /\ [](epoch <= 8)
    /\ [](n_score > 0 =>
            (n_score = 1 /\ epoch = 8 /\ scored_on = "val" /\ phase = "idle"))
    /\ [][(n_score' # n_score /\ n_score' # 0) =>
            /\ epoch = 8 /\ fit_call.num_epoch = 8
            /\ fit_call.val.path_imgrec = PATH_VAL
            /\ phase' = "idle" /\ pc' = pc + 1]_vars
    /\ [][(phase = "training" /\ epoch' # epoch) => epoch' = epoch + 1]_vars
    /\ [][(phase = "training" /\ epoch < 8) => phase' = "training"]_vars
    /\ (phase = "training") ~> (phase = "idle" /\ n_score = 1)

C8_Witness ==
    /\ pc = IndexOf("assert", 2)
    /\ n_score = 1
    /\ epoch = 8
    /\ epoch_acc = 770
    /\ Accuracy(mod_score) = 861

====
